---- MODULE Spec2Model ----
(***************************************************************************)
(* A model of rusty-paserk: key identifiers (src/src/id.rs), sealed keys   *)
(* (src/src/pke.rs) and plaintext keys (src/src/key/plaintext.rs).         *)
(*                                                                         *)
(* Bytes are integers 0..255 and byte strings are sequences of them, at    *)
(* the lengths the code uses.  Text is a sequence of ASCII codes.  Base64  *)
(* is computed bit for bit.  The hash functions, the stream ciphers and    *)
(* the two elliptic curves are small stand-ins with the same interfaces    *)
(* and output lengths: the curves are real curves over small prime fields, *)
(* so that invalid encodings, Diffie-Hellman agreement and clamping behave *)
(* as they do on P-384 and Curve25519.                                     *)
(***************************************************************************)
EXTENDS Integers, Sequences, FiniteSets, TLC

(***************************************************************************)
(* Bytes and byte strings                                                  *)
(***************************************************************************)

\* 2^n for the small n used here.
RECURSIVE Pow2(_)
Pow2(n) == IF n = 0 THEN 1 ELSE 2 * Pow2(n - 1)

\* Bit j (0 = least significant) of the byte b.
BitOf(b, j) == (b \div Pow2(j)) % 2

\* The byte b with bit j inverted.
FlipBit(b, j) == IF BitOf(b, j) = 1 THEN b - Pow2(j) ELSE b + Pow2(j)

\* Bitwise exclusive or, and, or of two bytes.
XorByte(a, b) ==
    LET d(j) == IF BitOf(a, j) = BitOf(b, j) THEN 0 ELSE Pow2(j)
    IN d(0) + d(1) + d(2) + d(3) + d(4) + d(5) + d(6) + d(7)

AndByte(a, b) ==
    LET d(j) == IF BitOf(a, j) = 1 /\ BitOf(b, j) = 1 THEN Pow2(j) ELSE 0
    IN d(0) + d(1) + d(2) + d(3) + d(4) + d(5) + d(6) + d(7)

OrByte(a, b) ==
    LET d(j) == IF BitOf(a, j) = 1 \/ BitOf(b, j) = 1 THEN Pow2(j) ELSE 0
    IN d(0) + d(1) + d(2) + d(3) + d(4) + d(5) + d(6) + d(7)

\* s[from..] and s[..to] with 0-based, half-open Rust ranges.
Take(s, n) == SubSeq(s, 1, n)
Drop(s, n) == SubSeq(s, n + 1, Len(s))

\* n zero bytes: GenericArray::default() and [0; n].
Zeros(n) == [i \in 1..n |-> 0]

\* str::strip_prefix: the rest of s after the prefix p, or None.
StartsWith(s, p) == Len(s) >= Len(p) /\ Take(s, Len(p)) = p

(***************************************************************************)
(* URL-safe Base64 without padding                                         *)
(***************************************************************************)

\* The ASCII code of the Base64 symbol with value v: A-Z a-z 0-9 - _
B64Symbol(v) ==
    IF v < 26 THEN 65 + v
    ELSE IF v < 52 THEN 97 + (v - 26)
    ELSE IF v < 62 THEN 48 + (v - 52)
    ELSE IF v = 62 THEN 45
    ELSE 95

\* The value of the symbol with ASCII code c, or -1 when c is no symbol.
B64Value(c) ==
    IF c >= 65 /\ c <= 90 THEN c - 65
    ELSE IF c >= 97 /\ c <= 122 THEN c - 97 + 26
    ELSE IF c >= 48 /\ c <= 57 THEN c - 48 + 52
    ELSE IF c = 45 THEN 62
    ELSE IF c = 95 THEN 63
    ELSE -1

\* The number of symbols that encode n bytes without padding.
B64EncodedLen(n) == (4 * n) \div 3 + (IF (4 * n) % 3 # 0 THEN 1 ELSE 0)

\* The unpadded URL-safe Base64 text of the byte string b.
B64Encode(b) ==
    LET n == Len(b)
        at(i) == IF i <= n THEN b[i] ELSE 0
        sym(j) ==
            LET g == (j - 1) \div 4
                r == (j - 1) % 4
                b0 == at(3 * g + 1)
                b1 == at(3 * g + 2)
                b2 == at(3 * g + 3)
            IN  IF r = 0 THEN b0 \div 4
                ELSE IF r = 1 THEN (b0 % 4) * 16 + b1 \div 16
                ELSE IF r = 2 THEN (b1 % 16) * 4 + b2 \div 64
                ELSE b2 % 64
    IN  [j \in 1..B64EncodedLen(n) |-> B64Symbol(sym(j))]

\* base64::decode_config_slice(s, URL_SAFE_NO_PAD, buf): the bytes of the text
\* s, or the DecodeError.  A length of 1 mod 4 is InvalidLength unless the last
\* byte is no symbol; then the first byte that is no symbol (or a padding
\* character out of place) is InvalidByte; then non-zero bits left over in the
\* last symbol are InvalidLastSymbol.  Trailing '=' (61) is accepted where
\* padding may stand: the configuration only says what the encoder writes.
B64Decode(s) ==
    LET m == Len(s)
        pads == {i \in 1..m : s[i] = 61}
        nd == IF pads = {} THEN m ELSE (CHOOSE i \in pads : \A k \in pads : i <= k) - 1
        badSym == \E i \in 1..nd : B64Value(s[i]) = -1
        badPad == /\ pads # {}
                  /\ \/ \E i \in (nd + 1)..m : s[i] # 61
                     \/ nd % 4 < 2
                     \/ m - nd > 4 - (nd % 4)
        v(j) == IF j <= nd THEN B64Value(s[j]) ELSE 0
        nbytes == (nd * 6) \div 8
        byte(i) ==
            LET g == (i - 1) \div 3
                r == (i - 1) % 3
                c0 == v(4 * g + 1)
                c1 == v(4 * g + 2)
                c2 == v(4 * g + 3)
                c3 == v(4 * g + 4)
            IN  IF r = 0 THEN c0 * 4 + c1 \div 16
                ELSE IF r = 1 THEN (c1 % 16) * 16 + c2 \div 4
                ELSE (c2 % 4) * 64 + c3
        trailing == IF nd % 4 = 2 THEN v(nd) % 16
                    ELSE IF nd % 4 = 3 THEN v(nd) % 4
                    ELSE 0
    IN  IF m % 4 = 1
        THEN IF s[m] # 61 /\ B64Value(s[m]) = -1
             THEN [kind |-> "InvalidByte", val |-> <<>>]
             ELSE [kind |-> "InvalidLength", val |-> <<>>]
        ELSE IF badSym \/ badPad THEN [kind |-> "InvalidByte", val |-> <<>>]
        ELSE IF trailing # 0 THEN [kind |-> "InvalidLastSymbol", val |-> <<>>]
        ELSE [kind |-> "Ok", val |-> [i \in 1..nbytes |-> byte(i)]]

\* base64ct's Base64UrlUnpadded::encode(src, dst): the text written into the
\* buffer dst of cap bytes, or InvalidLength when the text does not fit.
B64EncodeInto(src, cap) ==
    IF B64EncodedLen(Len(src)) > cap
    THEN [kind |-> "InvalidLength", val |-> <<>>]
    ELSE [kind |-> "Ok", val |-> B64Encode(src)]

(***************************************************************************)
(* Hash functions, MACs and stream ciphers                                 *)
(*                                                                         *)
(* One stand-in, Digest, parameterised by the function it stands for and   *)
(* by the output length: two polynomial accumulators over the input, the   *)
(* first four output bytes spelling the accumulators out, the others mixed *)
(* from them.  Distinct functions and distinct output lengths give         *)
(* unrelated digests, as they do for SHA-2 and BLAKE2b.                    *)
(***************************************************************************)

\* The weight of the byte at position i in accumulator acc (1 or 2).
Weight(acc, i) ==
    IF acc = 1 THEN (i * i * i + 7 * i + 1) % 65521
    ELSE (5 * i * i + 3 * i + 11) % 65519

\* The sum over i in lo..hi of Weight(acc, i) * (s[i] + 1) modulo md, by halves.
RECURSIVE WeightedSum(_, _, _, _, _)
WeightedSum(s, lo, hi, acc, md) ==
    IF lo > hi THEN 0
    ELSE IF lo = hi THEN (Weight(acc, lo) * (s[lo] + 1)) % md
    ELSE LET mid == (lo + hi) \div 2
         IN  (WeightedSum(s, lo, mid, acc, md) + WeightedSum(s, mid + 1, hi, acc, md)) % md

\* The two accumulators of the stand-in over the bytes s.
DigestState(fn, outlen, s) ==
    <<(fn * 1009 + outlen * 31 + Len(s) + WeightedSum(s, 1, Len(s), 1, 65521)) % 65521,
      (fn * 7 + outlen * 131 + 5 + WeightedSum(s, 1, Len(s), 2, 65519)) % 65519>>

\* Byte i of the output for the accumulators h.
DigestByte(fn, h, i) ==
    IF i = 1 THEN h[1] % 256
    ELSE IF i = 2 THEN h[1] \div 256
    ELSE IF i = 3 THEN h[2] % 256
    ELSE IF i = 4 THEN h[2] \div 256
    ELSE ((h[1] * (i * i + 3) + h[2] * (2 * i + 1) + fn * i) % 65537) % 256

\* The input and the accumulators are computed once (bound as values).
Digest(fn, outlen, input) ==
    CHOOSE r \in {[i \in 1..outlen |-> DigestByte(fn, h, i)] :
                    h \in {CHOOSE h0 \in {DigestState(fn, outlen, s) : s \in {input}} : TRUE}} :
        TRUE

\* sha2::Sha384 (48 bytes) and sha2::Sha512 (64 bytes).
Sha384(input) == Digest(1, 48, input)
Sha512(input) == Digest(2, 64, input)

\* blake2::Blake2b<outlen>.
Blake2b(outlen, input) == Digest(3, outlen, input)

\* hmac::Hmac<Sha384> keyed with key, over msg: 48 bytes.
HmacSha384(key, msg) == Digest(4, 48, key \o msg)

\* blake2::Blake2bMac<U32> keyed with key, over msg: 32 bytes.
Blake2bMac(key, msg) == Digest(5, 32, key \o msg)

\* The key stream XORed onto data: applying it twice gives data back.
ApplyKeystream(ks, data) ==
    CHOOSE r \in {[i \in 1..Len(d) |-> XorByte(d[i], k[i])] : k \in {ks}, d \in {data}} : TRUE

\* ctr::Ctr64BE<aes::Aes256>::new(ek, n).apply_keystream(data)
Aes256Ctr(ek, n, data) ==
    CHOOSE r \in {ApplyKeystream(Digest(6, Len(d), ek \o n), d) : d \in {data}} : TRUE

\* chacha20::XChaCha20::new(ek, n).apply_keystream(data)
XChaCha20(ek, n, data) ==
    CHOOSE r \in {ApplyKeystream(Digest(7, Len(d), ek \o n), d) : d \in {data}} : TRUE

(***************************************************************************)
(* Arithmetic in a prime field                                             *)
(***************************************************************************)

RECURSIVE PowMod(_, _, _)
PowMod(x, e, p) ==
    IF e = 0 THEN 1
    ELSE CHOOSE r \in {IF e % 2 = 0 THEN PowMod(sq, e \div 2, p)
                       ELSE (b * PowMod(sq, e \div 2, p)) % p :
                       b \in {x}, sq \in {(x * x) % p}} : TRUE

\* x^(p-2): the inverse of x, and 0 for 0 (as the field types invert).
InvMod(x, p) == PowMod(x % p, p - 2, p)

\* Euler's criterion: x is a square modulo the odd prime p.
IsSquareMod(x, p) == x % p = 0 \/ PowMod(x % p, (p - 1) \div 2, p) = 1

\* The square roots of x modulo p.
SqrtsMod(x, p) == {y \in 0..(p - 1) : (y * y) % p = x % p}

\* The little-endian value of the bytes s[lo..hi] modulo md, by halves.
RECURSIVE LeMod(_, _, _, _)
LeMod(s, lo, hi, md) ==
    IF lo > hi THEN 0
    ELSE IF lo = hi THEN (s[lo] * PowMod(256 % md, lo - 1, md)) % md
    ELSE LET mid == (lo + hi) \div 2
         IN  (LeMod(s, lo, mid, md) + LeMod(s, mid + 1, hi, md)) % md

\* The byte string is a big-endian integer below the bound (bound <= 256).
BeBelow(s, bound) ==
    /\ \A i \in 1..(Len(s) - 1) : s[i] = 0
    /\ s[Len(s)] < bound

(***************************************************************************)
(* The p384 crate: a short Weierstrass curve y^2 = x^3 - 3x + b of prime   *)
(* order, here over the field of WP elements, with WN points and the       *)
(* generator WG.  Field elements and scalars are 48 bytes, big-endian.     *)
(***************************************************************************)

WP == 17
WB == 3
WN == 23
WG == <<1, 1>>
WInfinity == <<>>

WOnCurve(pt) ==
    (pt[2] * pt[2]) % WP = (pt[1] * pt[1] * pt[1] + (WP - 3) * pt[1] + WB) % WP

WAdd(p1, p2) ==
    IF p1 = WInfinity THEN p2
    ELSE IF p2 = WInfinity THEN p1
    ELSE IF p1[1] = p2[1] /\ (p1[2] + p2[2]) % WP = 0 THEN WInfinity
    ELSE
        LET l == IF p1 = p2
                 THEN ((3 * p1[1] * p1[1] + (WP - 3)) * InvMod(2 * p1[2], WP)) % WP
                 ELSE ((p2[2] - p1[2] + WP) * InvMod(p2[1] - p1[1] + WP, WP)) % WP
            x3 == (l * l + 2 * WP - p1[1] - p2[1]) % WP
            y3 == (l * (p1[1] - x3 + WP) + WP - p1[2]) % WP
        IN  <<x3, y3>>

RECURSIVE WMul(_, _)
WMul(k, pt) ==
    IF k = 0 THEN WInfinity
    ELSE CHOOSE r \in {IF k % 2 = 0 THEN half ELSE WAdd(q, half) :
                       q \in {pt},
                       half \in {CHOOSE h \in {WMul(k \div 2, d) : d \in {WAdd(pt, pt)}} : TRUE}} :
             TRUE

\* A field element as 48 big-endian bytes.
FieldBytes(x) == Zeros(47) \o <<x>>

\* EncodedPoint::compress().as_bytes(): 0x02 or 0x03 by the parity of y, then x.
Sec1Compress(pt) == <<2 + (pt[2] % 2)>> \o FieldBytes(pt[1])

\* PublicKey::from_sec1_bytes on a 49-byte string: the point, or Err for a tag
\* that is no compressed tag (0x00 identity, 0x04 uncompressed, 0x05 compact and
\* 0x06/0x07 hybrid have other lengths), an x that is no field element or an x
\* with no point on the curve.
FromSec1Bytes(bytes) ==
    LET x == bytes[49]
        rhs == (x * x * x + (WP - 3) * x + WB) % WP
        ys == {y \in SqrtsMod(rhs, WP) : y % 2 = bytes[1] - 2}
    IN  IF Len(bytes) # 49 \/ bytes[1] \notin {2, 3}
           \/ ~BeBelow(Drop(bytes, 1), WP) \/ ys = {}
        THEN [kind |-> "Err", val |-> WInfinity]
        ELSE [kind |-> "Ok", val |-> <<x, CHOOSE y \in ys : TRUE>>]

\* SecretKey::from_bytes / Scalar::from_bytes on 48 bytes: the scalar, or Err
\* when it is zero or not below the group order.
ScalarFromBytes(bytes) ==
    IF Len(bytes) = 48 /\ BeBelow(bytes, WN) /\ bytes[48] # 0
    THEN [kind |-> "Ok", val |-> bytes[48]]
    ELSE [kind |-> "Err", val |-> 0]

\* p384::ecdh::diffie_hellman(sk, pk).raw_secret_bytes(): the x coordinate of
\* sk * pk.
P384DiffieHellman(sk, pt) == FieldBytes(WMul(sk, pt)[1])

(***************************************************************************)
(* curve25519-dalek and x25519-dalek: the Montgomery curve                 *)
(* v^2 = u^3 + A u^2 + u and its twisted Edwards form                      *)
(* (A+2) x^2 + y^2 = 1 + (A-2) x^2 y^2, here over the field of MP          *)
(* elements with A = MA; the curve has 8 * 31 points and its twist 4 * 53. *)
(* Field elements and scalars are 32 bytes, little-endian.                 *)
(***************************************************************************)

MP == 229
MA == 79
\* The least common multiple of the two group orders: a scalar acts through
\* its residue modulo it.
MOrders == 13144
\* The u coordinate of the base point (9 on Curve25519).
MBaseU == 4
\* The Edwards base point, which maps to MBaseU.
EdBase == <<177, 138>>

\* A field element as 32 little-endian bytes.
FieldBytesLe(x) == <<x>> \o Zeros(31)

\* The field element of 32 bytes: the top bit is ignored, the rest reduced.
FieldFromBytesLe(bytes) ==
    CHOOSE r \in {LeMod([b EXCEPT ![32] = b[32] % 128], 1, 32, MP) : b \in {bytes}} : TRUE

\* Scalar::from_bits_clamped / x25519's clamping of a 32-byte scalar.
Clamp(bytes) ==
    [bytes EXCEPT ![1] = AndByte(bytes[1], 248),
                  ![32] = OrByte(AndByte(bytes[32], 127), 64)]

\* One step of the Montgomery ladder for bit t of k, on <<x2, z2, x3, z3>>.
LadderStep(st, bit, x1) ==
    LET x2 == IF bit = 1 THEN st[3] ELSE st[1]
        z2 == IF bit = 1 THEN st[4] ELSE st[2]
        x3 == IF bit = 1 THEN st[1] ELSE st[3]
        z3 == IF bit = 1 THEN st[2] ELSE st[4]
        a24 == ((MA + 2) * InvMod(4, MP)) % MP
        a == (x2 + z2) % MP
        aa == (a * a) % MP
        b == (x2 - z2 + MP) % MP
        bb == (b * b) % MP
        e == (aa - bb + MP) % MP
        c == (x3 + z3) % MP
        d == (x3 - z3 + MP) % MP
        da == (d * a) % MP
        cb == (c * b) % MP
        nx3 == ((da + cb) * (da + cb)) % MP
        nz3 == (x1 * (((da - cb + MP) * (da - cb + MP)) % MP)) % MP
        nx2 == (aa * bb) % MP
        nz2 == (e * ((bb + a24 * e) % MP)) % MP
    IN  IF bit = 1 THEN <<nx3, nz3, nx2, nz2>> ELSE <<nx2, nz2, nx3, nz3>>

\* The ladder over the bits t, t-1, .. 0 of k.
RECURSIVE Ladder(_, _, _, _)
Ladder(st, k, t, x1) ==
    IF t < 0 THEN st
    ELSE CHOOSE r \in {IF next[1] >= 0 THEN Ladder(next, k, t - 1, x1) ELSE next :
                       next \in {LadderStep(st, (k \div Pow2(t)) % 2, x1)}} : TRUE

\* The u coordinate of k times a point with u coordinate u (on the curve or on
\* its twist); 0 for the point at infinity.
MontgomeryMul(k, u) ==
    CHOOSE r \in {(st[1] * InvMod(st[2], MP)) % MP :
                    st \in {Ladder(<<1, 0, u, 1>>, k, 13, u)}} : TRUE

\* x25519(scalar, u): both 32 bytes; the scalar is clamped, every u is accepted.
X25519(scalar, u) ==
    CHOOSE r \in {FieldBytesLe(MontgomeryMul(k, w)) :
                    k \in {CHOOSE k0 \in {LeMod(c, 1, 32, MOrders) : c \in {Clamp(scalar)}} : TRUE},
                    w \in {FieldFromBytesLe(u)}} : TRUE

X25519BasePoint == FieldBytesLe(MBaseU)

\* CompressedEdwardsY::decompress: the point with the y of the 32 bytes and the
\* x of the sign in the top bit, or None when no x goes with that y.
EdDecompress(bytes) ==
    LET y == FieldFromBytesLe(bytes)
        sign == bytes[32] \div 128
        yy == (y * y) % MP
        num == (1 + (MP - yy)) % MP
        den == ((MA + 2) + (MP - (((MA - 2) * yy) % MP))) % MP
        xx == (num * InvMod(den, MP)) % MP
        xs == SqrtsMod(xx, MP)
    IN  IF xs = {} THEN [kind |-> "None", val |-> <<>>]
        ELSE LET x0 == CHOOSE x \in xs : x % 2 = 0 \/ \A w \in xs : w % 2 = 1
                 x == IF x0 % 2 = sign THEN x0 ELSE (MP - x0) % MP
             IN  [kind |-> "Some", val |-> <<x, y>>]

\* EdwardsPoint::to_montgomery: u = (1 + y) / (1 - y).
ToMontgomery(pt) == FieldBytesLe(((1 + pt[2]) * InvMod(1 + MP - pt[2], MP)) % MP)

EdAdd(p1, p2) ==
    LET t == ((MA - 2) * ((p1[1] * p2[1]) % MP) * ((p1[2] * p2[2]) % MP)) % MP
        x3 == ((p1[1] * p2[2] + p1[2] * p2[1]) * InvMod(1 + t, MP)) % MP
        y3 == ((((p1[2] * p2[2]) % MP) + (MP - (((MA + 2) * ((p1[1] * p2[1]) % MP)) % MP)))
                  * InvMod(1 + MP - t, MP)) % MP
    IN  <<x3, y3>>

RECURSIVE EdMul(_, _)
EdMul(k, pt) ==
    IF k = 0 THEN <<0, 1>>
    ELSE CHOOSE r \in {IF k % 2 = 0 THEN half ELSE EdAdd(q, half) :
                       q \in {pt},
                       half \in {CHOOSE h \in {EdMul(k \div 2, d) : d \in {EdAdd(pt, pt)}} : TRUE}} :
             TRUE

\* EdwardsPoint::compress: y, with the parity of x in the top bit.
EdCompress(pt) == [FieldBytesLe(pt[2]) EXCEPT ![32] = 128 * (pt[1] % 2)]

(***************************************************************************)
(* Versions, purposes and their constants                                  *)
(***************************************************************************)

\* Version::KEY_HEADER: "k1." "k2." "k3." "k4."
KEY_HEADER(v) ==
    IF v = "V1" THEN <<107, 49, 46>>
    ELSE IF v = "V2" THEN <<107, 50, 46>>
    ELSE IF v = "V3" THEN <<107, 51, 46>>
    ELSE <<107, 52, 46>>

\* KeyType::HEADER: "local." "secret." "public."
HEADER(k) ==
    IF k = "Local" THEN <<108, 111, 99, 97, 108, 46>>
    ELSE IF k = "Secret" THEN <<115, 101, 99, 114, 101, 116, 46>>
    ELSE <<112, 117, 98, 108, 105, 99, 46>>

\* KeyType::ID: "lid." "sid." "pid."
ID(k) ==
    IF k = "Local" THEN <<108, 105, 100, 46>>
    ELSE IF k = "Secret" THEN <<115, 105, 100, 46>>
    ELSE <<112, 105, 100, 46>>

\* "seal."
SealHeader == <<115, 101, 97, 108, 46>>

\* The byte length of a Key<V, K>.
KeyLen(v, k) ==
    IF k = "Local" THEN 32
    ELSE IF v = "V3" THEN (IF k = "Secret" THEN 48 ELSE 49)
    ELSE (IF k = "Secret" THEN 64 ELSE 32)

SealedVersions == {"V3", "V4"}
Purposes == {"Local", "Secret", "Public"}

\* SealedVersion::TagLen, EpkLen, TotalLen of V3 and of V4.
V3TagLen == 48
V3EpkLen == 49
V3TotalLen == 129
V4TagLen == 32
V4EpkLen == 32
V4TotalLen == 96

TagLen(v) == IF v = "V3" THEN V3TagLen ELSE V4TagLen
EpkLen(v) == IF v = "V3" THEN V3EpkLen ELSE V4EpkLen
TotalLen(v) == IF v = "V3" THEN V3TotalLen ELSE V4TotalLen

(***************************************************************************)
(* Keys                                                                    *)
(***************************************************************************)

\* Key<V3, Secret>::public_key: the compressed point of the secret scalar.
PublicKeyV3(sk) == Sec1Compress(WMul(ScalarFromBytes(sk).val, WG))

\* The Ed25519 public key of a 32-byte seed: the compressed point of the
\* clamped first half of SHA-512(seed).
EdPublicOfSeed(seed) ==
    CHOOSE r \in {EdCompress(pt) :
                    pt \in {CHOOSE q \in {EdMul(LeMod(c, 1, 32, MOrders), EdBase) :
                                          c \in {Clamp(Take(Sha512(seed), 32))}} : TRUE}} : TRUE

\* A Key<V4, Secret> is the seed followed by its public key.
SecretKeyV4(seed) == seed \o EdPublicOfSeed(seed)

\* Key<V4, Secret>::public_key: the second half of the secret key.
PublicKeyV4(sk) == Drop(sk, 32)

PublicKey(v, sk) == IF v = "V3" THEN PublicKeyV3(sk) ELSE PublicKeyV4(sk)

(***************************************************************************)
(* SealedKey<V>: split_total, join_total, seal, unseal                     *)
(***************************************************************************)

NoSealed == [tag |-> <<>>, ephemeral_public_key |-> <<>>, encrypted_data_key |-> <<>>]

\* A faulty split_total that cuts the tag one byte short.
SplitTotalV3ShortTag(total) ==
    LET rest == Drop(total, V3TagLen - 1)
    IN  [tag |-> Take(total, V3TagLen - 1),
         ephemeral_public_key |-> Take(rest, V3EpkLen),
         encrypted_data_key |-> Drop(rest, V3EpkLen)]

\* <V3 as SealedVersion>::split_total
SplitTotalV3(total) ==
    LET rest == Drop(total, V3TagLen)
    IN  [tag |-> Take(total, V3TagLen),
         ephemeral_public_key |-> Take(rest, V3EpkLen),
         encrypted_data_key |-> Drop(rest, V3EpkLen)]

\* <V3 as SealedVersion>::join_total
JoinTotalV3(sealed) ==
    (sealed.tag \o sealed.ephemeral_public_key) \o sealed.encrypted_data_key

\* <V4 as SealedVersion>::split_total
SplitTotalV4(total) ==
    LET rest == Drop(total, V4TagLen)
    IN  [tag |-> Take(total, V4TagLen),
         ephemeral_public_key |-> Take(rest, V4EpkLen),
         encrypted_data_key |-> Drop(rest, V4EpkLen)]

\* <V4 as SealedVersion>::join_total
JoinTotalV4(sealed) ==
    (sealed.tag \o sealed.ephemeral_public_key) \o sealed.encrypted_data_key

SplitTotal(v, total) == IF v = "V3" THEN SplitTotalV3(total) ELSE SplitTotalV4(total)
JoinTotal(v, sealed) == IF v = "V3" THEN JoinTotalV3(sealed) ELSE JoinTotalV4(sealed)

\* An outcome of seal: the SealedKey, or the panic of an unwrap.
SealOk(tag, epk, edk, draws) ==
    [kind |-> "Ok",
     val |-> [tag |-> tag, ephemeral_public_key |-> epk, encrypted_data_key |-> edk],
     draws |-> draws]
SealPanic == [kind |-> "Panic", val |-> NoSealed, draws |-> 0]

\* A faulty sampler that does not stop at the first draw that is a scalar.
LastValidDraw(rng) ==
    LET ok == {i \in 1..Len(rng) : ScalarFromBytes(rng[i]).kind = "Ok"}
    IN  IF ok = {} THEN 0 ELSE CHOOSE i \in ok : \A j \in ok : i >= j

\* NonZeroScalar::random(rng), inside EphemeralSecret::random: the index of the
\* first draw of the stream rng that is a non-zero scalar below the order
\* (0 when the stream holds none).
FirstValidDraw(rng) ==
    LET ok == {i \in 1..Len(rng) : ScalarFromBytes(rng[i]).kind = "Ok"}
    IN  IF ok = {} THEN 0 ELSE CHOOSE i \in ok : \A j \in ok : i <= j

\* The hash input the V3 key derivations share after their first byte.
V3KdfInput(domain, xk, epk, pk) ==
    <<domain>> \o KEY_HEADER("V3") \o SealHeader \o xk \o epk \o pk

\* <V3 as SealedVersion>::seal
SealV3(plaintext_key, sealing_key, rng) ==
    LET pk == FromSec1Bytes(sealing_key)
        used == FirstValidDraw(rng)
        esk == ScalarFromBytes(rng[used]).val
        epk == Sec1Compress(WMul(esk, WG))
        xk == P384DiffieHellman(esk, pk.val)
        d1 == Sha384(V3KdfInput(1, xk, epk, sealing_key))
        ek == Take(d1, 32)
        n == Drop(d1, 32)
        ak == Sha384(V3KdfInput(2, xk, epk, sealing_key))
        edk == Aes256Ctr(ek, n, plaintext_key)
        tag == HmacSha384(ak, KEY_HEADER("V3") \o SealHeader \o epk \o edk)
    IN  IF pk.kind # "Ok" THEN SealPanic
        ELSE SealOk(tag, epk, edk, used)

\* An outcome of unseal: Ok(key), Err(InvalidSignature), or the panic of an
\* unwrap.
UnsealOk(key) == [kind |-> "Ok", val |-> key]
UnsealErr(e) == [kind |-> e, val |-> <<>>]

\* <V3 as SealedVersion>::unseal
UnsealV3(sealed_key, unsealing_key) ==
    LET sk == ScalarFromBytes(unsealing_key)
        pk == Sec1Compress(WMul(sk.val, WG))
        epk == FromSec1Bytes(sealed_key.ephemeral_public_key)
        xk == P384DiffieHellman(sk.val, epk.val)
        ak == Sha384(V3KdfInput(2, xk, sealed_key.ephemeral_public_key, pk))
        tag == HmacSha384(ak, KEY_HEADER("V3") \o SealHeader
                                \o sealed_key.ephemeral_public_key
                                \o sealed_key.encrypted_data_key)
        d1 == Sha384(V3KdfInput(1, xk, sealed_key.ephemeral_public_key, pk))
        ek == Take(d1, 32)
        n == Drop(d1, 32)
    IN  IF sk.kind # "Ok" THEN UnsealErr("Panic")
        ELSE IF epk.kind # "Ok" THEN UnsealErr("Panic")
        ELSE IF sealed_key.tag # tag THEN UnsealErr("InvalidSignature")
        ELSE UnsealOk(Aes256Ctr(ek, n, sealed_key.encrypted_data_key))

\* The hash input the V4 key derivations share after their first byte.
V4KdfInput(domain, xk, epk, xpk) ==
    <<domain>> \o KEY_HEADER("V4") \o SealHeader \o xk \o epk \o xpk

\* <V4 as SealedVersion>::seal
SealV4(plaintext_key, sealing_key, rng) ==
    LET pk == EdDecompress(sealing_key)
        xpk == ToMontgomery(pk.val)
        esk == rng[1]
        epk == X25519(esk, X25519BasePoint)
        xk == X25519(esk, xpk)
        ek == Blake2b(32, V4KdfInput(1, xk, epk, xpk))
        ak == Blake2b(32, V4KdfInput(2, xk, epk, xpk))
        n == Blake2b(24, epk \o xpk)
        edk == XChaCha20(ek, n, plaintext_key)
        tag == Blake2bMac(ak, KEY_HEADER("V4") \o SealHeader \o epk \o edk)
    IN  IF Len(sealing_key) # 32 \/ pk.kind # "Some" THEN SealPanic
        ELSE SealOk(tag, epk, edk, 1)

\* A faulty expansion that hashes the whole 64-byte secret key, not its seed.
ExpandSecretWholeKey(unsealing_key) == Clamp(Take(Sha512(unsealing_key), 32))

\* The secret key expanded in unseal: the clamped first 32 bytes of the
\* SHA-512 of the seed, the first 32 bytes of the secret key.
ExpandSecretV4(unsealing_key) == Clamp(Take(Sha512(Take(unsealing_key, 32)), 32))

\* <V4 as SealedVersion>::unseal
UnsealV4(sealed_key, unsealing_key) ==
    LET epk == sealed_key.ephemeral_public_key
        xsk == ExpandSecretV4(unsealing_key)
        xpk == X25519(xsk, X25519BasePoint)
        xk == X25519(xsk, epk)
        ak == Blake2b(32, V4KdfInput(2, xk, epk, xpk))
        t2 == Blake2bMac(ak, KEY_HEADER("V4") \o SealHeader \o epk
                               \o sealed_key.encrypted_data_key)
        ek == Blake2b(32, V4KdfInput(1, xk, epk, xpk))
        n == Blake2b(24, epk \o xpk)
    IN  IF sealed_key.tag # t2 THEN UnsealErr("InvalidSignature")
        ELSE UnsealOk(XChaCha20(ek, n, sealed_key.encrypted_data_key))

\* The statements of unseal in their order, one operator for each group.
\*
\* The key agreement: the secret scalar, the recipient's public key, the
\* ephemeral public key and the shared secret xk; for V3 the panic of an
\* unwrap when the secret key or the ephemeral public key does not decode.
UnsealAgree(v, sealed_key, unsealing_key) ==
    IF v = "V3"
    THEN LET sk == ScalarFromBytes(unsealing_key)
             epk == FromSec1Bytes(sealed_key.ephemeral_public_key)
         IN  IF sk.kind # "Ok" \/ epk.kind # "Ok"
             THEN [kind |-> "Panic", xk |-> <<>>, pk |-> <<>>]
             ELSE [kind |-> "Ok",
                   xk |-> P384DiffieHellman(sk.val, epk.val),
                   pk |-> Sec1Compress(WMul(sk.val, WG))]
    ELSE LET xsk == ExpandSecretV4(unsealing_key)
         IN  [kind |-> "Ok",
              xk |-> X25519(xsk, sealed_key.ephemeral_public_key),
              pk |-> X25519(xsk, X25519BasePoint)]

\* The MAC key ak and the tag recomputed with it.
UnsealTag(v, sealed_key, xk, pk) ==
    LET epk == sealed_key.ephemeral_public_key
        msg == KEY_HEADER(v) \o SealHeader \o epk \o sealed_key.encrypted_data_key
    IN  IF v = "V3"
        THEN HmacSha384(Sha384(V3KdfInput(2, xk, epk, pk)), msg)
        ELSE Blake2bMac(Blake2b(32, V4KdfInput(2, xk, epk, pk)), msg)

\* A faulty comparison that never returns the error.
AfterCompareAlways(equal) == "derive"

\* Step 6, the comparison of the tags: return InvalidSignature or go on.
AfterCompare(equal) == IF equal THEN "derive" ELSE "fail"

\* The encryption key ek and the nonce n.
UnsealCipherKey(v, sealed_key, xk, pk) ==
    LET epk == sealed_key.ephemeral_public_key
    IN  IF v = "V3"
        THEN LET d1 == Sha384(V3KdfInput(1, xk, epk, pk))
             IN  [ek |-> Take(d1, 32), n |-> Drop(d1, 32)]
        ELSE [ek |-> Blake2b(32, V4KdfInput(1, xk, epk, pk)),
              n |-> Blake2b(24, epk \o pk)]

\* The decryption of the encrypted data key.
UnsealDecrypt(v, ek, n, edk) ==
    IF v = "V3" THEN Aes256Ctr(ek, n, edk) ELSE XChaCha20(ek, n, edk)

\* Key<V, Local>::seal_with_rng and SealedKey<V>::unseal
SealWithRng(v, key, sealing_key, rng) ==
    IF v = "V3" THEN SealV3(key, sealing_key, rng) ELSE SealV4(key, sealing_key, rng)
Unseal(v, sealed_key, unsealing_key) ==
    IF v = "V3" THEN UnsealV3(sealed_key, unsealing_key)
    ELSE UnsealV4(sealed_key, unsealing_key)

\* crate::write_b64: the unpadded URL-safe Base64 text of the bytes.
WriteB64(bytes) == B64Encode(bytes)

\* A faulty Display that pads the Base64 payload with '='.
SealedToStringPadded(v, sealed) ==
    KEY_HEADER(v) \o SealHeader \o WriteB64(JoinTotal(v, sealed)) \o <<61>>

\* <SealedKey<V> as Display>::fmt
SealedToString(v, sealed) == KEY_HEADER(v) \o SealHeader \o WriteB64(JoinTotal(v, sealed))

\* An outcome of a parser: Ok(value) or the error; decoded says whether the
\* Base64 decoder ran.
ParseOk(val) == [kind |-> "Ok", val |-> val, decoded |-> TRUE]
ParseErr(e, decoded, none) == [kind |-> e, val |-> none, decoded |-> decoded]

\* A faulty parser that skips the version header without comparing it.
SealedFromStrAnyVersion(v, s) ==
    LET s1 == Drop(s, Len(KEY_HEADER(v)))
        s2 == Drop(s1, Len(SealHeader))
        expected_len == ((Len(s2) + 3) \div 4) * 3
        dec == B64Decode(s2)
    IN  IF ~StartsWith(s1, SealHeader) THEN ParseErr("WrongHeader", FALSE, NoSealed)
        ELSE IF expected_len # TotalLen(v) THEN ParseErr("InvalidLength", FALSE, NoSealed)
        ELSE IF dec.kind # "Ok" THEN ParseErr(dec.kind, TRUE, NoSealed)
        ELSE IF Len(dec.val) # TotalLen(v) THEN ParseErr("InvalidLength", TRUE, NoSealed)
        ELSE ParseOk(SplitTotal(v, dec.val))

\* <SealedKey<V> as FromStr>::from_str
SealedFromStr(v, s) ==
    LET s1 == Drop(s, Len(KEY_HEADER(v)))
        s2 == Drop(s1, Len(SealHeader))
        expected_len == ((Len(s2) + 3) \div 4) * 3
        dec == B64Decode(s2)
    IN  IF ~StartsWith(s, KEY_HEADER(v)) THEN ParseErr("WrongHeader", FALSE, NoSealed)
        ELSE IF ~StartsWith(s1, SealHeader) THEN ParseErr("WrongHeader", FALSE, NoSealed)
        ELSE IF expected_len # TotalLen(v) THEN ParseErr("InvalidLength", FALSE, NoSealed)
        ELSE IF dec.kind # "Ok" THEN ParseErr(dec.kind, TRUE, NoSealed)
        ELSE IF Len(dec.val) # TotalLen(v) THEN ParseErr("InvalidLength", TRUE, NoSealed)
        ELSE ParseOk(SplitTotal(v, dec.val))

(***************************************************************************)
(* PlaintextKey<V, K>                                                      *)
(***************************************************************************)

\* A faulty Display that leaves the purpose header out.
PlaintextToStringNoPurpose(v, k, key) == KEY_HEADER(v) \o WriteB64(key)

\* <PlaintextKey<V, K> as Display>::fmt
PlaintextToString(v, k, key) == KEY_HEADER(v) \o HEADER(k) \o WriteB64(key)

\* crate::read_b64 into a key of n bytes: a text that is not Base64 and a text
\* that decodes to another length are rejected.
ReadB64(n, s) ==
    LET dec == B64Decode(s)
    IN  IF dec.kind # "Ok" THEN ParseErr(dec.kind, TRUE, <<>>)
        ELSE IF Len(dec.val) # n THEN ParseErr("InvalidLength", TRUE, <<>>)
        ELSE ParseOk(dec.val)

\* <PlaintextKey<V, K> as FromStr>::from_str
PlaintextFromStr(v, k, s) ==
    LET s1 == Drop(s, Len(KEY_HEADER(v)))
        s2 == Drop(s1, Len(HEADER(k)))
    IN  IF ~StartsWith(s, KEY_HEADER(v)) THEN ParseErr("WrongHeader", FALSE, <<>>)
        ELSE IF ~StartsWith(s1, HEADER(k)) THEN ParseErr("WrongHeader", FALSE, <<>>)
        ELSE ReadB64(KeyLen(v, k), s2)

(***************************************************************************)
(* Key identifiers                                                         *)
(***************************************************************************)

Versions == {"V1", "V2", "V3", "V4"}

\* The first literal each EncodeId impl passes: the prefix of the identifier.
IdHeader(v, k) ==
    CASE v = "V1" /\ k = "Local" -> <<107, 49, 46, 108, 105, 100, 46>>  \* "k1.lid."
      [] v = "V1" /\ k = "Secret" -> <<107, 49, 46, 115, 105, 100, 46>>  \* "k1.sid."
      [] v = "V1" /\ k = "Public" -> <<107, 49, 46, 112, 105, 100, 46>>  \* "k1.pid."
      [] v = "V2" /\ k = "Local" -> <<107, 50, 46, 108, 105, 100, 46>>  \* "k2.lid."
      [] v = "V2" /\ k = "Secret" -> <<107, 50, 46, 115, 105, 100, 46>>  \* "k2.sid."
      [] v = "V2" /\ k = "Public" -> <<107, 50, 46, 112, 105, 100, 46>>  \* "k2.pid."
      [] v = "V3" /\ k = "Local" -> <<107, 51, 46, 108, 105, 100, 46>>  \* "k3.lid."
      [] v = "V3" /\ k = "Secret" -> <<107, 51, 46, 115, 105, 100, 46>>  \* "k3.sid."
      [] v = "V3" /\ k = "Public" -> <<107, 51, 46, 112, 105, 100, 46>>  \* "k3.pid."
      [] v = "V4" /\ k = "Local" -> <<107, 52, 46, 108, 105, 100, 46>>  \* "k4.lid."
      [] v = "V4" /\ k = "Secret" -> <<107, 52, 46, 115, 105, 100, 46>>  \* "k4.sid."
      [] v = "V4" /\ k = "Public" -> <<107, 52, 46, 112, 105, 100, 46>>  \* "k4.pid."

\* The second literal each EncodeId impl passes: the prefix of the plaintext key.
IdHeader2(v, k) ==
    CASE v = "V1" /\ k = "Local" -> <<107, 49, 46, 108, 111, 99, 97, 108, 46>>  \* "k1.local."
      [] v = "V1" /\ k = "Secret" -> <<107, 49, 46, 115, 101, 99, 114, 101, 116, 46>>  \* "k1.secret."
      [] v = "V1" /\ k = "Public" -> <<107, 49, 46, 112, 117, 98, 108, 105, 99, 46>>  \* "k1.public."
      [] v = "V2" /\ k = "Local" -> <<107, 50, 46, 108, 111, 99, 97, 108, 46>>  \* "k2.local."
      [] v = "V2" /\ k = "Secret" -> <<107, 50, 46, 115, 101, 99, 114, 101, 116, 46>>  \* "k2.secret."
      [] v = "V2" /\ k = "Public" -> <<107, 50, 46, 112, 117, 98, 108, 105, 99, 46>>  \* "k2.public."
      [] v = "V3" /\ k = "Local" -> <<107, 51, 46, 108, 111, 99, 97, 108, 46>>  \* "k3.local."
      [] v = "V3" /\ k = "Secret" -> <<107, 51, 46, 115, 101, 99, 114, 101, 116, 46>>  \* "k3.secret."
      [] v = "V3" /\ k = "Public" -> <<107, 51, 46, 112, 117, 98, 108, 105, 99, 46>>  \* "k3.public."
      [] v = "V4" /\ k = "Local" -> <<107, 52, 46, 108, 111, 99, 97, 108, 46>>  \* "k4.local."
      [] v = "V4" /\ k = "Secret" -> <<107, 52, 46, 115, 101, 99, 114, 101, 116, 46>>  \* "k4.secret."
      [] v = "V4" /\ k = "Public" -> <<107, 52, 46, 112, 117, 98, 108, 105, 99, 46>>  \* "k4.public."

\* An outcome of encode_id: the identifier and the bytes the hash was fed, or
\* the panic of an unwrap.
IdOk(text, hashed) == [kind |-> "Ok", val |-> text, hashed |-> hashed]
IdPanic == [kind |-> "Panic", val |-> <<>>, hashed |-> <<>>]

\* A faulty encode_v1_v3 that keeps 32 digest bytes.
EncodeV1V3Short(header, header2, key) ==
    LET enc == IF Len(key) <= 64
               THEN B64EncodeInto(key, (64 * 4) \div 3)
               ELSE [kind |-> "Ok", val |-> B64Encode(key)]
        hashed == header \o header2 \o enc.val
        d == Take(Sha384(hashed), 32)
    IN  IF enc.kind # "Ok" THEN IdPanic
        ELSE IdOk(header \o B64Encode(d), hashed)

\* encode_v1_v3
EncodeV1V3(header, header2, key) ==
    LET enc == IF Len(key) <= 64
               THEN B64EncodeInto(key, (64 * 4) \div 3)
               ELSE [kind |-> "Ok", val |-> B64Encode(key)]
        hashed == header \o header2 \o enc.val
        d == Take(Sha384(hashed), 33)
    IN  IF enc.kind # "Ok" THEN IdPanic
        ELSE IdOk(header \o B64Encode(d), hashed)

\* A faulty encode_v2_v4 that hashes the key text alone.
EncodeV2V4NoHeaders(header, header2, key) ==
    LET enc == B64EncodeInto(key, (64 * 4) \div 3 + 4)
        hashed == enc.val
        d == Blake2b(33, hashed)
    IN  IF enc.kind # "Ok" THEN IdPanic
        ELSE IdOk(header \o B64Encode(d), hashed)

\* encode_v2_v4
EncodeV2V4(header, header2, key) ==
    LET enc == B64EncodeInto(key, (64 * 4) \div 3 + 4)
        hashed == header \o header2 \o enc.val
        d == Blake2b(33, hashed)
    IN  IF enc.kind # "Ok" THEN IdPanic
        ELSE IdOk(header \o B64Encode(d), hashed)

\* EncodeId::encode_id of the key types of version v and purpose k.
EncodeId(v, k, key) ==
    IF v \in {"V1", "V3"}
    THEN EncodeV1V3(IdHeader(v, k), IdHeader2(v, k), key)
    ELSE EncodeV2V4(IdHeader(v, k), IdHeader2(v, k), key)

(***************************************************************************)
(* Inputs                                                                  *)
(***************************************************************************)

\* How many local keys, secret keys and random streams the runs draw from.
NumLocalKeys == 2
NumSecretKeys == 2
NumRngStreams == 2

\* A byte string of n bytes that differs from seed to seed.
Pattern(seed, n) == [i \in 1..n |-> (seed * 37 + i * (2 * seed + 1) * 11 + i * i) % 256]

LocalKeys == {Pattern(s, 32) : s \in 1..NumLocalKeys}

\* Secret keys: P-384 scalars in 1..WN-1, and Ed25519 seeds with their public
\* halves.
SecretKeys(v) ==
    IF v = "V3"
    THEN {FieldBytes(1 + ((5 * s) % (WN - 1))) : s \in 1..NumSecretKeys}
    ELSE {SecretKeyV4(Pattern(s + 40, 32)) : s \in 1..NumSecretKeys}

\* Draws that are no P-384 scalar: zero, the group order, a value above it.
InvalidDraw(r) ==
    IF r % 3 = 0 THEN Zeros(48)
    ELSE IF r % 3 = 1 THEN FieldBytes(WN)
    ELSE [i \in 1..48 |-> 255]

\* The streams of draws an RNG hands to seal: the first draws of each.  For
\* V3 every other stream starts with a draw that is no scalar, and each
\* holds two draws that are scalars; for V4 every 32 bytes are taken.
RngStreams(v) ==
    IF v = "V3"
    THEN {IF r % 2 = 1
          THEN <<FieldBytes(1 + ((7 * r) % (WN - 1))), FieldBytes(1 + ((3 * r) % (WN - 1)))>>
          ELSE <<InvalidDraw(r), FieldBytes(1 + ((7 * r) % (WN - 1))),
                 FieldBytes(1 + ((3 * r) % (WN - 1)))>> :
          r \in 1..NumRngStreams}
    ELSE {<<Pattern(r + 80, 32)>> : r \in 1..NumRngStreams}

\* The largest coordinate of the byte strings handed over as public keys.
MaxCandidate == 17

\* Byte strings of the length of a public key, points and others.  For V3 the
\* tag byte 0 (identity), 2, 3 (compressed) or 4 (uncompressed) and 48 bytes
\* of a coordinate, on the curve, off the curve or not below the field
\* modulus; for V4 32 bytes of a y coordinate with or without an x.
CandidateKeys(v) ==
    IF v = "V3"
    THEN {<<t>> \o FieldBytes(x) : t \in {0, 2, 3, 4}, x \in 0..MaxCandidate}
    ELSE {FieldBytesLe(y) : y \in 0..MaxCandidate}

\* Whether seal decodes the recipient public key to a point.
ValidPublicKey(v, key) ==
    IF v = "V3" THEN FromSec1Bytes(key).kind = "Ok" ELSE EdDecompress(key).kind = "Some"

(***************************************************************************)
(* The state                                                               *)
(***************************************************************************)

VARIABLES
    pc,          \* where the run of seal / print / parse / unseal stands
    version,     \* the version V of the run
    local_key,   \* the Key<V, Local> that is sealed
    secret_key,  \* the recipient's Key<V, Secret>
    sealed,      \* the SealedKey<V> that seal returned, as stored
    flipped,     \* the bit of the stored envelope that was inverted, if any
    text,        \* the Display output of the stored SealedKey
    parsed,      \* the outcome of parsing text
    unsealed,    \* the outcome of unseal
    input,       \* a text handed to a parser
    origin,      \* the value whose Display output input was, and how it was edited
    parser,      \* the parser input was handed to: its type, version and purpose
    result,      \* the outcome of that parser
    id_call,     \* the last encode_id call: version, purpose, key and outcome
    id_prev,     \* the encode_id call before it
    sealing_key, \* the recipient public key handed to seal
    rng,         \* the draws the RNG handed to seal holds, in order
    seal_out,    \* the outcome of seal, with the number of draws it took
    frame        \* the locals of a running unseal, empty until computed

vars == <<pc, version, local_key, secret_key, sealed, flipped, text, parsed, unsealed,
          input, origin, parser, result, id_call, id_prev, sealing_key, rng, seal_out,
          frame>>
callVars == <<sealing_key, rng, seal_out>>
sealVars == <<version, local_key, secret_key, sealed, flipped, text, parsed, unsealed,
              callVars, frame>>
textVars == <<input, origin, parser, result>>
idVars == <<id_call, id_prev>>

NoFlip == [byte |-> 0, bit |-> 0]
NoParse == [kind |-> "none", val |-> NoSealed, decoded |-> FALSE]
NoUnseal == [kind |-> "none", val |-> <<>>]
NoOrigin == [type |-> "none", v |-> "none", k |-> "none", bytes |-> <<>>, edit |-> "none"]
NoParser == [type |-> "none", v |-> "none", k |-> "none"]
NoResult == [kind |-> "none", val |-> <<>>, decoded |-> FALSE]
NoIdCall == [v |-> "none", k |-> "none", key |-> <<>>,
             out |-> [kind |-> "none", val |-> <<>>, hashed |-> <<>>]]
NoSealOut == [kind |-> "none", val |-> NoSealed, draws |-> 0]
NoFrame == [xk |-> <<>>, pk |-> <<>>, tag |-> <<>>, ek |-> <<>>, n |-> <<>>]

Init ==
    /\ pc = "start"
    /\ version = "none"
    /\ local_key = <<>>
    /\ secret_key = <<>>
    /\ sealed = NoSealed
    /\ flipped = NoFlip
    /\ text = <<>>
    /\ parsed = NoParse
    /\ unsealed = NoUnseal
    /\ input = <<>>
    /\ origin = NoOrigin
    /\ parser = NoParser
    /\ result = NoResult
    /\ id_call = NoIdCall
    /\ id_prev = NoIdCall
    /\ sealing_key = <<>>
    /\ rng = <<>>
    /\ seal_out = NoSealOut
    /\ frame = NoFrame

(***************************************************************************)
(* Sealing, storing, tampering, parsing, unsealing                         *)
(***************************************************************************)

\* key.seal_with_rng(&secret_key.public_key(), rng)
Seal ==
    /\ pc = "start"
    /\ \E v \in SealedVersions :
       \E k \in LocalKeys, sk \in SecretKeys(v), rng_in \in RngStreams(v) :
          \E pk \in {PublicKey(v, sk)} :
          \E out \in {SealWithRng(v, k, pk, rng_in)} :
              /\ v = "V3" => FirstValidDraw(rng_in) > 0
              /\ out.kind = "Ok"
              /\ version' = v
              /\ local_key' = k
              /\ secret_key' = sk
              /\ sealed' = out.val
              /\ sealing_key' = pk
              /\ rng' = rng_in
              /\ seal_out' = out
    /\ pc' = "sealed"
    /\ UNCHANGED <<flipped, text, parsed, unsealed, frame, textVars, idVars>>

\* key.seal_with_rng(&public_key, rng) with a public key that was handed over
\* as bytes, not derived from a secret key of this run.
SealTo ==
    /\ pc = "start"
    /\ \E v \in SealedVersions :
       \E k \in LocalKeys, pk \in CandidateKeys(v), rng_in \in RngStreams(v) :
          /\ version' = v
          /\ local_key' = k
          /\ sealing_key' = pk
          /\ rng' = rng_in
          /\ seal_out' = SealWithRng(v, k, pk, rng_in)
    /\ pc' = "sealed_to"
    /\ UNCHANGED <<secret_key, sealed, flipped, text, parsed, unsealed, frame,
                   textVars, idVars>>

\* The sealed key with bit j of byte i (counted over tag, epk, edk) inverted.
FlipSealed(v, sk, i, j) ==
    LET t == TagLen(v)
        e == EpkLen(v)
    IN  IF i <= t
        THEN [sk EXCEPT !.tag[i] = FlipBit(@, j)]
        ELSE IF i <= t + e
        THEN [sk EXCEPT !.ephemeral_public_key[i - t] = FlipBit(@, j)]
        ELSE [sk EXCEPT !.encrypted_data_key[i - t - e] = FlipBit(@, j)]

\* One bit of the stored envelope is inverted before the recipient reads it.
Tamper ==
    /\ pc = "sealed"
    /\ \E i \in 1..TotalLen(version), j \in 0..7 :
          /\ sealed' = FlipSealed(version, sealed, i, j)
          /\ flipped' = [byte |-> i, bit |-> j]
    /\ pc' = "tampered"
    /\ UNCHANGED <<version, local_key, secret_key, text, parsed, unsealed, callVars, frame,
                   textVars, idVars>>

\* sealed.to_string()
Display ==
    /\ pc = "sealed"
    /\ text' = SealedToString(version, sealed)
    /\ pc' = "printed"
    /\ UNCHANGED <<version, local_key, secret_key, sealed, flipped, parsed, unsealed, callVars, frame,
                   textVars, idVars>>

\* text.parse::<SealedKey<V>>()
Parse ==
    /\ pc = "printed"
    /\ parsed' = SealedFromStr(version, text)
    /\ pc' = "parsed"
    /\ UNCHANGED <<version, local_key, secret_key, sealed, flipped, text, unsealed, callVars, frame,
                   textVars, idVars>>

\* sealed.unseal(&secret_key), on the stored key or on the parsed one.
DoUnseal ==
    /\ \/ pc \in {"sealed", "tampered"}
       \/ pc = "parsed" /\ parsed.kind = "Ok"
    /\ unsealed' = Unseal(version, IF pc = "parsed" THEN parsed.val ELSE sealed, secret_key)
    /\ pc' = "unsealed"
    /\ UNCHANGED <<version, local_key, secret_key, sealed, flipped, text, parsed, callVars, frame,
                   textVars, idVars>>

\* A V3 sealed text is written by someone else: the tag and the encrypted
\* data key of a sealed key, and 49 bytes of their choice in between.
Forge ==
    /\ pc = "sealed"
    /\ version = "V3"
    /\ \E epk \in CandidateKeys("V3") :
          LET forged == [sealed EXCEPT !.ephemeral_public_key = epk]
          IN  /\ sealed' = forged
              /\ text' = KEY_HEADER("V3") \o SealHeader \o B64Encode(JoinTotalV3(forged))
    /\ pc' = "forged"
    /\ UNCHANGED <<version, local_key, secret_key, flipped, parsed, unsealed, callVars, frame,
                   textVars, idVars>>

\* text.parse::<SealedKey<V3>>() on the text written by someone else.
ParseForged ==
    /\ pc = "forged"
    /\ parsed' = SealedFromStr(version, text)
    /\ pc' = "forged_parsed"
    /\ UNCHANGED <<version, local_key, secret_key, sealed, flipped, text, unsealed, callVars,
                   frame, textVars, idVars>>

\* parsed.unseal(&secret_key) on what that text parsed to.
UnsealForged ==
    /\ pc = "forged_parsed"
    /\ parsed.kind = "Ok"
    /\ unsealed' = Unseal(version, parsed.val, secret_key)
    /\ pc' = "forged_unsealed"
    /\ UNCHANGED <<version, local_key, secret_key, sealed, flipped, text, parsed, callVars,
                   frame, textVars, idVars>>

Next ==
    Seal \/ SealTo \/ Tamper \/ Display \/ Parse \/ DoUnseal
        \/ Forge \/ ParseForged \/ UnsealForged

Spec == Init /\ [][Next]_vars

(***************************************************************************)
(* unseal, statement by statement                                          *)
(***************************************************************************)

\* The bytes of a stored sealed key that are inverted on its way: the first
\* and the last byte of the tag, the ephemeral public key and the encrypted
\* data key.
FlipBytes(v) ==
    {1, TagLen(v), TagLen(v) + 1, TagLen(v) + EpkLen(v), TagLen(v) + EpkLen(v) + 1,
     TotalLen(v)}

\* A sealed key arrives at the recipient, as seal returned it or with one bit
\* inverted.
Receive ==
    /\ pc = "start"
    /\ \E v \in SealedVersions :
       \E k \in LocalKeys, sk \in SecretKeys(v), rng_in \in RngStreams(v) :
          \E pk \in {PublicKey(v, sk)} :
          \E out \in {SealWithRng(v, k, pk, rng_in)} :
              /\ out.kind = "Ok"
              /\ version' = v
              /\ local_key' = k
              /\ secret_key' = sk
              /\ sealing_key' = pk
              /\ rng' = rng_in
              /\ seal_out' = out
              /\ \/ sealed' = out.val /\ flipped' = NoFlip
                 \/ \E i \in FlipBytes(v), j \in 0..7 :
                       /\ sealed' = FlipSealed(v, out.val, i, j)
                       /\ flipped' = [byte |-> i, bit |-> j]
    /\ pc' = "received"
    /\ UNCHANGED <<text, parsed, unsealed, frame, textVars, idVars>>

\* unseal, up to the shared secret.
UnsealBegin ==
    /\ pc = "received"
    /\ LET a == UnsealAgree(version, sealed, secret_key)
       IN  IF a.kind = "Ok"
           THEN /\ frame' = [frame EXCEPT !.xk = a.xk, !.pk = a.pk]
                /\ pc' = "agreed"
                /\ UNCHANGED unsealed
           ELSE /\ unsealed' = UnsealErr("Panic")
                /\ pc' = "returned"
                /\ UNCHANGED frame
    /\ UNCHANGED <<version, local_key, secret_key, sealed, flipped, text, parsed, callVars,
                   textVars, idVars>>

\* unseal, the MAC key and the recomputed tag.
UnsealMac ==
    /\ pc = "agreed"
    /\ frame' = [frame EXCEPT !.tag = UnsealTag(version, sealed, frame.xk, frame.pk)]
    /\ pc' = "tagged"
    /\ UNCHANGED <<version, local_key, secret_key, sealed, flipped, text, parsed, unsealed,
                   callVars, textVars, idVars>>

\* unseal, the comparison of the tags.
UnsealCompare ==
    /\ pc = "tagged"
    /\ IF AfterCompare(sealed.tag = frame.tag) = "fail"
       THEN /\ unsealed' = UnsealErr("InvalidSignature")
            /\ pc' = "returned"
       ELSE /\ pc' = "verified"
            /\ UNCHANGED unsealed
    /\ UNCHANGED <<version, local_key, secret_key, sealed, flipped, text, parsed, frame,
                   callVars, textVars, idVars>>

\* unseal, the encryption key and the nonce.
UnsealDerive ==
    /\ pc = "verified"
    /\ LET c == UnsealCipherKey(version, sealed, frame.xk, frame.pk)
       IN  frame' = [frame EXCEPT !.ek = c.ek, !.n = c.n]
    /\ pc' = "keyed"
    /\ UNCHANGED <<version, local_key, secret_key, sealed, flipped, text, parsed, unsealed,
                   callVars, textVars, idVars>>

\* unseal, the decryption and the return of the key.
UnsealReturn ==
    /\ pc = "keyed"
    /\ unsealed' = UnsealOk(UnsealDecrypt(version, frame.ek, frame.n,
                                          sealed.encrypted_data_key))
    /\ pc' = "returned"
    /\ UNCHANGED <<version, local_key, secret_key, sealed, flipped, text, parsed, frame,
                   callVars, textVars, idVars>>

NextUnseal ==
    Receive \/ UnsealBegin \/ UnsealMac \/ UnsealCompare \/ UnsealDerive \/ UnsealReturn

SpecUnseal == Init /\ [][NextUnseal]_vars

(***************************************************************************)
(* Parsers on texts: Display outputs, whole or edited                      *)
(***************************************************************************)

\* How many values of each type are printed.
NumTextValues == 2
\* How many characters are appended to a text at most.
MaxAppend == 5
\* By how many bytes a payload written by another program misses the total.
MaxLenDelta == 3

\* Characters put in place of another or appended: 'A', 'K', 'k', '3', '4',
\* '.', '=' and '!', which is no Base64 symbol.
EditChars == {65, 75, 107, 51, 52, 46, 61, 33}

\* A SealedKey<V> of arbitrary bytes.
AnySealed(v, seed) ==
    [tag |-> Pattern(seed, TagLen(v)),
     ephemeral_public_key |-> Pattern(seed + 7, EpkLen(v)),
     encrypted_data_key |-> Pattern(seed + 13, 32)]

\* PlaintextKey(key).to_string()
WritePlaintext ==
    /\ pc = "start"
    /\ \E v \in SealedVersions, k \in Purposes, seed \in 1..NumTextValues :
          LET key == Pattern(seed + 3, KeyLen(v, k))
          IN  /\ input' = PlaintextToString(v, k, key)
              /\ origin' = [type |-> "plaintext", v |-> v, k |-> k, bytes |-> key,
                            edit |-> "none"]
    /\ pc' = "text"
    /\ UNCHANGED <<sealVars, parser, result, idVars>>

\* sealed.to_string()
WriteSealed ==
    /\ pc = "start"
    /\ \E v \in SealedVersions, seed \in 1..NumTextValues :
          LET sk == AnySealed(v, seed)
          IN  /\ input' = SealedToString(v, sk)
              /\ origin' = [type |-> "sealed", v |-> v, k |-> "none",
                            bytes |-> sk.tag \o sk.ephemeral_public_key \o sk.encrypted_data_key,
                            edit |-> "none"]
    /\ pc' = "text"
    /\ UNCHANGED <<sealVars, parser, result, idVars>>

\* A text with the "kN.seal." prefix of a version and the Base64 of a number
\* of bytes that is not the version's total, as another program may write it.
WriteOther ==
    /\ pc = "start"
    /\ \E v \in SealedVersions, d \in 1..MaxLenDelta, sign \in {-1, 1},
          seed \in 1..NumTextValues :
          LET bytes == Pattern(seed + 5, TotalLen(v) + sign * d)
          IN  /\ input' = KEY_HEADER(v) \o SealHeader \o B64Encode(bytes)
              /\ origin' = [type |-> "other", v |-> v, k |-> "none", bytes |-> bytes,
                            edit |-> "none"]
    /\ pc' = "text"
    /\ UNCHANGED <<sealVars, parser, result, idVars>>

\* The text is cut short.
Truncate ==
    /\ pc = "text"
    /\ origin.edit = "none"
    /\ \E n \in 0..(Len(input) - 1) : input' = Take(input, n)
    /\ origin' = [origin EXCEPT !.edit = "truncate"]
    /\ UNCHANGED <<pc, sealVars, parser, result, idVars>>

\* Characters are appended to the text.
Extend ==
    /\ pc = "text"
    /\ origin.edit = "none"
    /\ \E n \in 1..MaxAppend, c \in EditChars : input' = input \o [i \in 1..n |-> c]
    /\ origin' = [origin EXCEPT !.edit = "extend"]
    /\ UNCHANGED <<pc, sealVars, parser, result, idVars>>

\* One character of the text is replaced: any of the prefix and of the first
\* and last characters of the payload.
Replace ==
    /\ pc = "text"
    /\ origin.edit = "none"
    /\ \E i \in (1..12) \cup {Len(input) - 1, Len(input)}, c \in EditChars :
          /\ input[i] # c
          /\ input' = [input EXCEPT ![i] = c]
    /\ origin' = [origin EXCEPT !.edit = "replace"]
    /\ UNCHANGED <<pc, sealVars, parser, result, idVars>>

\* input.parse::<SealedKey<V>>()
ParseSealed ==
    /\ pc = "text"
    /\ \E v \in SealedVersions :
          /\ parser' = [type |-> "sealed", v |-> v, k |-> "none"]
          /\ result' = SealedFromStr(v, input)
    /\ pc' = "parsed"
    /\ UNCHANGED <<sealVars, input, origin, idVars>>

\* input.parse::<PlaintextKey<V, K>>()
ParsePlaintext ==
    /\ pc = "text"
    /\ \E v \in SealedVersions, k \in Purposes :
          /\ parser' = [type |-> "plaintext", v |-> v, k |-> k]
          /\ result' = PlaintextFromStr(v, k, input)
    /\ pc' = "parsed"
    /\ UNCHANGED <<sealVars, input, origin, idVars>>

NextText ==
    WritePlaintext \/ WriteSealed \/ WriteOther \/ Truncate \/ Extend \/ Replace
        \/ ParseSealed \/ ParsePlaintext

SpecText == Init /\ [][NextText]_vars

(***************************************************************************)
(* encode_id calls                                                         *)
(***************************************************************************)

\* The longest key handed to encode_id, and how many keys of each length.
MaxIdKeyLen == 65
NumIdKeys == 2
\* How many keys of each length the pairs of calls draw from.
NumIdPairKeys == 1

\* Keys of every length up to MaxIdKeyLen: the asymmetric key types wrap a
\* byte slice of any length.
IdKeys == {Pattern(seed + 5, n) : seed \in 1..NumIdKeys, n \in 0..MaxIdKeyLen}

\* Keys of the lengths of the V3 and V4 key types.
IdPairKeys == {Pattern(seed + 9, n) : seed \in 1..NumIdPairKeys, n \in {32, 48, 49, 64}}

IdCall(v, k, key) == [v |-> v, k |-> k, key |-> key, out |-> EncodeId(v, k, key)]

\* key.encode_id()
EncodeIdCall ==
    /\ pc = "start"
    /\ \E v \in Versions, k \in Purposes, key \in IdKeys : id_call' = IdCall(v, k, key)
    /\ pc' = "id"
    /\ UNCHANGED <<sealVars, textVars, id_prev>>

NextId == EncodeIdCall

SpecId == Init /\ [][NextId]_vars

\* The first of two encode_id calls.
EncodeIdFirst ==
    /\ pc = "start"
    /\ \E v \in Versions, k \in Purposes, key \in IdPairKeys : id_call' = IdCall(v, k, key)
    /\ pc' = "id"
    /\ UNCHANGED <<sealVars, textVars, id_prev>>

\* The second of two encode_id calls.
EncodeIdSecond ==
    /\ pc = "id"
    /\ \E v \in Versions, k \in Purposes, key \in IdPairKeys : id_call' = IdCall(v, k, key)
    /\ id_prev' = id_call
    /\ pc' = "ids"
    /\ UNCHANGED <<sealVars, textVars>>

NextIdPair == EncodeIdFirst \/ EncodeIdSecond

SpecIdPair == Init /\ [][NextIdPair]_vars

(***************************************************************************)
(* Properties of sealing (checked under Spec)                              *)
(***************************************************************************)

\* "k3.seal." and "k4.seal."
K3Seal == <<107, 51, 46, 115, 101, 97, 108, 46>>
K4Seal == <<107, 52, 46, 115, 101, 97, 108, 46>>

\* C1: for every local key, every secret key of the same version and every
\* random stream seal accepts, unsealing what seal returned with the secret
\* key succeeds and returns exactly the local key (directly, or after the
\* sealed key was printed and parsed).
C1_UnsealOfSealIsKey ==
    (pc = "unsealed" /\ flipped = NoFlip)
        => (unsealed.kind = "Ok" /\ unsealed.val = local_key)

\* A V3 key sealed, printed, parsed and unsealed to the key it was.
C1_Witness ==
    /\ pc = "unsealed"
    /\ flipped = NoFlip
    /\ version = "V3"
    /\ parsed.kind = "Ok"
    /\ unsealed.kind = "Ok"
    /\ Len(unsealed.val) = 32

\* C2: after any single bit of the stored envelope is inverted, unseal with
\* the recipient's secret key returns InvalidSignature.
C2_BitFlipIsInvalidSignature ==
    (pc = "unsealed" /\ flipped # NoFlip) => unsealed.kind = "InvalidSignature"

\* C4: parsing the Display output of a SealedKey gives the same tag, ephemeral
\* public key and encrypted data key; the text holds tag, then epk, then edk,
\* cut at 48/49/32 bytes for V3 and 32/32/32 for V4.
C4_ParseOfDisplayIsSealed ==
    pc = "parsed" =>
        /\ parsed.kind = "Ok"
        /\ parsed.val = sealed
        /\ B64Decode(Drop(text, 8)).val
              = sealed.tag \o sealed.ephemeral_public_key \o sealed.encrypted_data_key
        /\ Len(parsed.val.tag) = (IF version = "V3" THEN 48 ELSE 32)
        /\ Len(parsed.val.ephemeral_public_key) = (IF version = "V3" THEN 49 ELSE 32)
        /\ Len(parsed.val.encrypted_data_key) = 32

\* A V3 sealed key parsed back from its text.
C4_Witness ==
    /\ pc = "parsed"
    /\ version = "V3"
    /\ parsed.kind = "Ok"
    /\ Len(sealed.ephemeral_public_key) = 49
    /\ text # <<>>

\* C7: the text of a sealed key is "k4.seal." and 128 Base64 symbols for V4,
\* "k3.seal." and 172 Base64 symbols for V3, with no padding character.
C7_SealedTextLength ==
    text # <<>> =>
        /\ version = "V4" => (Take(text, 8) = K4Seal /\ Len(text) = 8 + 128)
        /\ version = "V3" => (Take(text, 8) = K3Seal /\ Len(text) = 8 + 172)
        /\ \A i \in 9..Len(text) : B64Value(text[i]) # -1

\* A V4 sealed key printed.
C7_Witness == pc = "printed" /\ version = "V4" /\ Len(text) = 136

(***************************************************************************)
(* Properties of the parsers (checked under SpecText)                      *)
(***************************************************************************)

\* The prefix a SealedKey<V> text starts with.
SealPrefix(v) == IF v = "V3" THEN K3Seal ELSE K4Seal

\* C3: parsing the Display output of a PlaintextKey<V, K> (KEY_HEADER, then
\* the purpose HEADER, then the unpadded URL-safe Base64 of the key bytes) as
\* the same PlaintextKey<V, K> succeeds with exactly the same key bytes.
C3_PlaintextParseOfDisplay ==
    (/\ pc = "parsed"
     /\ origin.type = "plaintext"
     /\ origin.edit = "none"
     /\ parser = [type |-> "plaintext", v |-> origin.v, k |-> origin.k])
        => /\ result.kind = "Ok"
           /\ result.val = origin.bytes
           /\ StartsWith(input, IdHeader2(origin.v, origin.k))
           /\ LET payload == Drop(input, Len(IdHeader2(origin.v, origin.k)))
              IN  /\ \A i \in 1..Len(payload) : B64Value(payload[i]) # -1
                  /\ Len(payload) = B64EncodedLen(Len(origin.bytes))

\* A 64-byte V4 secret key printed and parsed back as a V4 secret key.
C3_Witness ==
    /\ pc = "parsed"
    /\ origin.type = "plaintext"
    /\ origin.edit = "none"
    /\ origin.v = "V4"
    /\ origin.k = "Secret"
    /\ parser = [type |-> "plaintext", v |-> "V4", k |-> "Secret"]
    /\ Len(result.val) = 64

\* C5: the SealedKey parser fails with WrongHeader, without decoding Base64,
\* whenever the text does not start with "kN.seal." of its version (so a V3
\* sealed text parsed as SealedKey<V4> fails with WrongHeader); the
\* PlaintextKey parser fails with WrongHeader whenever the text does not start
\* with KEY_HEADER then HEADER, compared byte for byte.
C5_WrongHeader ==
    pc = "parsed" =>
        /\ (parser.type = "sealed" /\ ~StartsWith(input, SealPrefix(parser.v)))
              => (result.kind = "WrongHeader" /\ ~result.decoded)
        /\ (parser.type = "plaintext" /\ ~StartsWith(input, IdHeader2(parser.v, parser.k)))
              => (result.kind = "WrongHeader" /\ ~result.decoded)
        /\ (parser.type = "sealed" /\ parser.v = "V4"
                /\ origin.type = "sealed" /\ origin.v = "V3" /\ origin.edit = "none")
              => result.kind = "WrongHeader"

\* A V3 sealed text handed to the V4 parser.
C5_Witness ==
    /\ pc = "parsed"
    /\ parser = [type |-> "sealed", v |-> "V4", k |-> "none"]
    /\ origin.type = "sealed"
    /\ origin.v = "V3"
    /\ origin.edit = "none"
    /\ result.kind = "WrongHeader"

\* C6: every text with the right "kN.seal." prefix whose payload, made of
\* Base64 symbols only, is not the Base64 of exactly the version's total
\* number of bytes (96 for V4, 129 for V3) fails to parse with InvalidLength
\* and gives no SealedKey; the only payloads the parser accepts have 128
\* characters (V4) and 172 characters (V3).
C6_WrongLengthIsInvalidLength ==
    (pc = "parsed" /\ parser.type = "sealed" /\ StartsWith(input, SealPrefix(parser.v)))
        => LET payload == Drop(input, 8)
               total == IF parser.v = "V3" THEN 129 ELSE 96
               chars == IF parser.v = "V3" THEN 172 ELSE 128
               dec == B64Decode(payload)
           IN  /\ ((\A i \in 1..Len(payload) : B64Value(payload[i]) # -1)
                      /\ ~(dec.kind = "Ok" /\ Len(dec.val) = total))
                     => (result.kind = "InvalidLength" /\ result.val = NoSealed)
               /\ result.kind = "Ok" => Len(payload) = chars

(***************************************************************************)
(* Properties of encode_id (checked under SpecId and SpecIdPair)           *)
(***************************************************************************)

\* C8: encode_id never fails on a key of at most 64 bytes: the Base64 text of
\* the key fits the stack buffer of encode_v1_v3 and of encode_v2_v4.
C8_EncodeIdNeverFails ==
    (pc = "id" /\ Len(id_call.key) <= 64) => id_call.out.kind = "Ok"

\* C9: encode_id returns an identifier for every V3 and V4 key of its
\* (version, purpose) length, and every identifier it returns is the version
\* header and the id mid-fix followed by exactly 44 Base64 symbols, which
\* encode 33 digest bytes: the first 33 bytes of SHA-384 for V1/V3, the
\* 33-byte BLAKE2b output for V2/V4, of the bytes that were hashed.
C9_IdFormat ==
    pc = "id" =>
        /\ (id_call.v \in SealedVersions /\ Len(id_call.key) = KeyLen(id_call.v, id_call.k))
              => id_call.out.kind = "Ok"
        /\ id_call.out.kind = "Ok"
              => LET id == id_call.out.val
                     payload == Drop(id, 7)
                     dec == B64Decode(payload)
                 IN  /\ Take(id, 7) = KEY_HEADER(id_call.v) \o ID(id_call.k)
                     /\ Len(payload) = 44
                     /\ \A i \in 1..44 : B64Value(payload[i]) # -1
                     /\ dec.kind = "Ok"
                     /\ Len(dec.val) = 33
                     /\ dec.val = (IF id_call.v \in {"V1", "V3"}
                                   THEN Take(Sha384(id_call.out.hashed), 33)
                                   ELSE Blake2b(33, id_call.out.hashed))

\* The identifier of a 48-byte V3 secret key.
C9_Witness ==
    /\ pc = "id"
    /\ id_call.v = "V3"
    /\ id_call.k = "Secret"
    /\ Len(id_call.key) = 48
    /\ id_call.out.kind = "Ok"
    /\ Len(id_call.out.val) = 51

\* C10: two encode_id calls for distinct (version, purpose) pairs hash
\* different bytes, whatever the keys, and return different identifiers; the
\* bytes hashed are KEY_HEADER, the ID mid-fix, KEY_HEADER, the HEADER mid-fix
\* and the Base64 of the key, in that order.
C10_DomainSeparation ==
    (pc = "ids" /\ id_prev.out.kind = "Ok" /\ id_call.out.kind = "Ok")
        => /\ id_call.out.hashed
                 = KEY_HEADER(id_call.v) \o ID(id_call.k) \o KEY_HEADER(id_call.v)
                      \o HEADER(id_call.k) \o B64Encode(id_call.key)
           /\ (id_prev.v # id_call.v \/ id_prev.k # id_call.k)
                 => /\ id_prev.out.hashed # id_call.out.hashed
                    /\ id_prev.out.val # id_call.out.val

\* The same 32 bytes as a V2 local key and as a V4 local key.
C10_Witness ==
    /\ pc = "ids"
    /\ id_prev.v = "V2"
    /\ id_call.v = "V4"
    /\ id_prev.k = "Local"
    /\ id_call.k = "Local"
    /\ id_prev.key = id_call.key
    /\ Len(id_call.key) = 32
    /\ id_prev.out.kind = "Ok"
    /\ id_call.out.kind = "Ok"

(***************************************************************************)
(* Properties of seal and unseal on invalid keys (checked under Spec)      *)
(***************************************************************************)

\* C11: seal with a recipient public key that does not decode to a point (V4:
\* no Edwards point decompresses from it; V3: no valid non-identity SEC1
\* P-384 point) returns the InvalidKey error and no SealedKey.
C11_BadRecipientKeyIsInvalidKey ==
    (pc = "sealed_to" /\ ~ValidPublicKey(version, sealing_key))
        => (seal_out.kind = "InvalidKey" /\ seal_out.val = NoSealed)

\* The error kinds an operation returns as a result.
ErrorKinds == {"WrongHeader", "InvalidBase64", "InvalidByte", "InvalidLastSymbol",
               "InvalidLength", "InvalidKey", "InvalidSignature"}

\* C13: a V3 sealed message whose 49-byte ephemeral public key is no valid
\* P-384 point (the identity encoding among them) is rejected with an error
\* result, by the parser or else by unseal, and never gives a local key.
C13_InvalidEpkIsRejected ==
    (version = "V3" /\ pc = "forged_unsealed"
        /\ FromSec1Bytes(sealed.ephemeral_public_key).kind = "Err")
        => unsealed.kind \in ErrorKinds

(***************************************************************************)
(* Properties of the order of unseal (checked under SpecUnseal)            *)
(***************************************************************************)

\* C12: in every run of unseal, V3 and V4, the encryption key and the nonce
\* are derived, and the encrypted data key is decrypted, only after the tag
\* was recomputed and found equal to the received tag; when the tags differ
\* unseal returns InvalidSignature with no bytes, having derived no
\* encryption key and decrypted nothing.  What the run returns is what
\* SealedKey::unseal returns.
C12_TagCheckedBeforeDecrypt ==
    /\ (frame.ek # <<>> \/ frame.n # <<>> \/ unsealed.kind = "Ok" \/ pc \in {"verified", "keyed"})
          => (frame.tag # <<>> /\ frame.tag = sealed.tag)
    /\ (pc = "returned" /\ frame.tag # <<>> /\ frame.tag # sealed.tag)
          => /\ unsealed.kind = "InvalidSignature"
             /\ unsealed.val = <<>>
             /\ frame.ek = <<>>
             /\ frame.n = <<>>
    /\ pc = "returned" => unsealed = Unseal(version, sealed, secret_key)

\* A V3 sealed key with a bit of its tag inverted, refused after the
\* comparison with no encryption key derived.
C12_Witness ==
    /\ pc = "returned"
    /\ version = "V3"
    /\ flipped # NoFlip
    /\ flipped.byte = 1
    /\ frame.tag # <<>>
    /\ frame.ek = <<>>
    /\ unsealed.kind = "InvalidSignature"

(***************************************************************************)
(* Properties of the ephemeral scalar (checked under Spec)                 *)
(***************************************************************************)

====
